---- MODULE Spec2Model ----
(***************************************************************************)
(* Soil-moisture simulation, block aggregation and row streaming of        *)
(* src/Data/dataset.py and src/Data/local_host_data.py.                    *)
(*                                                                         *)
(* Floats are modelled in fixed point:                                     *)
(*   moisture            centi-percent           (90.0 %   -> 9000)        *)
(*   light, temperature  tenths of a unit        (22.0 C   -> 220)         *)
(*   time                centi-minutes           (10 min   -> 1000)        *)
(*   cos, exp            ten-thousandths         (1.0      -> 10000)       *)
(*   K_soil, K_crop      tenths                  (0.8      -> 8)           *)
(*   lambda_base, c_*    millionths per minute   (0.00005  -> 50)          *)
(*   decay rate lambda   1e-8 per minute                                   *)
(* numpy's global generator is modelled as a small linear congruential     *)
(* generator: a state, advanced by every draw, that fixes the draw.        *)
(***************************************************************************)
EXTENDS Integers, Sequences, FiniteSets, TLC

VARIABLES
    cfg,            \* arguments of the running call (k and the simulation parameters)
    rng,            \* state of numpy's global random generator
    pc,             \* position of the request: loop, returned, aggregated, ...
    i,              \* loop index of full_data
    time,           \* full_data: time array
    humidity_data,  \* full_data: humidity array
    light_data,     \* full_data: light array
    temp_data,      \* full_data: temperature array
    current_humidity, \* full_data: moisture carried across iterations
    last,           \* locals of the latest iteration: moisture before and after the
                    \* watering guard, lambda_i, the samples, the generator state
                    \* the iteration started from, the draws in the order made
    reshaped,       \* synthetic_dataset: humidity_reshaped, light_reshaped, temp_reshaped,
                    \* time_blocks
    stats_df,       \* synthetic_dataset: the table of statistics
    csv,            \* Data/synthetic_dataset_stats.csv: the table last written
    row,            \* stream_data: number of rows yielded so far
    sent,           \* stream_data: the messages yielded so far, in order
    calls,          \* number of calls of synthetic_dataset started in this process
    rng0,           \* generator state at the entry of the running call
    ref,            \* arguments, generator state and results of the first call that returned
    exc,            \* the exception that left the running call: where it was raised,
                    \* what was raised there, what the caller sees
    probe,          \* arguments and result of a direct call of calculate_lambda
    now,            \* time.time(), in seconds
    session_state,  \* st.session_state: the keys of fetch_wab_data
    wab_runs,       \* W&B: lastHistoryStep of each run of the project, oldest first
    fetch,          \* the running call of fetch_wab_data: where it is, what it read
    wab_last,       \* the latest call of fetch_wab_data: how it ended, whether it
                    \* contacted the API, the session state it started from
    delivered,      \* the samples fetch_wab_data has returned, in order
    last_contact,   \* time of the latest contact with the W&B API (0: none)
    running,        \* SerialManager.running
    serial,         \* SerialManager.serial: the port, open or closed, and the bytes
                    \* waiting in its input buffer
    read_queue,     \* SerialManager.read_queue: chunks put and not yet got
    read_thread,    \* SerialManager.read_thread: where _reader is, its local data
    caller,         \* the thread that calls start, receive and stop
    read_log,       \* the chunks the reader has read from the port, in order
    received,       \* the chunks receive has returned, in order
    sent_bytes      \* number of bytes the board has sent

simVars_but_pc == <<cfg, rng, i, time, humidity_data, light_data, temp_data,
                    current_humidity, last>>
simVars == <<simVars_but_pc, pc>>
simVars_but_rng == <<cfg, pc, i, time, humidity_data, light_data, temp_data,
                     current_humidity, last>>
aggVars == <<reshaped, stats_df, csv>>
streamVars == <<row, sent>>
callVars == <<calls, rng0, ref, exc>>
plantVars == <<simVars, aggVars, streamVars, callVars, probe>>
wabVars == <<now, session_state, wab_runs, fetch, wab_last, delivered, last_contact>>
serialVars == <<running, serial, read_queue, read_thread, caller, read_log, received,
                sent_bytes>>

----------------------------------------------------------------------------
(* Bounds of the model *)

\* initial states of the random generator that are explored: 0..MaxSeed
MaxSeed == 7

\* calls of synthetic_dataset in one process
MaxCalls == 3

\* moistures probed between 0 and theta_pwp in direct calls of calculate_lambda
ProbeSteps == 4

\* history steps 0..MaxStep of a W&B run
MaxStep == 2

\* runs of the W&B project
MaxRuns == 2

\* seconds of a session that are explored
MaxElapsed == 15

\* bytes the board sends while the manager exists
MaxBytes == 3

----------------------------------------------------------------------------
(* Fixed-point arithmetic *)

ONE == 100 * 100          \* 1.0 for cos, exp

Max(a, b) == IF a >= b THEN a ELSE b
Min(a, b) == IF a <= b THEN a ELSE b

\* a / b rounded to the nearest integer (b > 0)
RoundDiv(a, b) == (a + b \div 2) \div b

\* np.clip
Clip(x, lo, hi) == Max(lo, Min(x, hi))

\* np.cos((2 * np.pi / 1440) * d) for d in centi-minutes, in ten-thousandths:
\* reduced to the first quadrant, then the Taylor series to the 8th order.
CosQuadrant(q) ==
    LET x  == (q * 3927) \div 9000          \* angle in 1e-4 rad: 2*pi/144000 = 3927/9000 * 1e-4
        x2 == (x * x) \div ONE
    IN  ONE - (x2 * (ONE - (x2 * (ONE - (x2 * (ONE - x2 \div 56)) \div (30 * ONE)))
                               \div (12 * ONE))) \div (2 * ONE)

CosDay(d) ==
    LET p == d % 144000
        h == IF p > 72000 THEN 144000 - p ELSE p
    IN  IF h > 36000 THEN - CosQuadrant(72000 - h) ELSE CosQuadrant(h)

\* np.exp(y) for y in ten-thousandths, in ten-thousandths: halve the argument
\* until it is within [-0.5, 0.5], Taylor series to the 5th order, square back.
RECURSIVE Exp(_)
Exp(y) ==
    IF y < -(ONE \div 2) \/ y > ONE \div 2
    THEN (Exp(y \div 2) ^ 2) \div ONE
    ELSE ONE + (y * (ONE + (y * (ONE + (y * (ONE + (y * (ONE + y \div 5)) \div (4 * ONE)))
                                 \div (3 * ONE))) \div (2 * ONE))) \div ONE

----------------------------------------------------------------------------
(* numpy's global random generator *)

RngModulus == 8 * 8

\* one draw advances the generator
RngNext(s) == (s * 37 + 11) % RngModulus

\* np.random.normal(0, sigma): the draw mapped onto [-2 sigma, 2 sigma]
Normal(s, sigma) == RoundDiv(2 * sigma * (2 * s - (RngModulus - 1)), RngModulus - 1)

\* np.random.rand(): a value of [0, 1), in thousandths
Rand(s) == (s * 1000) \div RngModulus

\* np.random.uniform(lo, hi): a value of [lo, hi)
Uniform(s, lo, hi) == lo + ((hi - lo) * s) \div RngModulus

----------------------------------------------------------------------------
(* Configurations: the arguments of synthetic_dataset / full_data *)

\* stream_stats: synthetic_dataset(6) with its defaults (dataset.py:186-187)
DefaultCfg ==
    [k |-> 6, total_time_minutes |-> 7200, time_step |-> 10,
     theta_init |-> 9000, theta_pwp |-> 1500, K_soil |-> 8, K_crop |-> 6,
     lambda_base |-> 50, c_temp |-> 15, c_light |-> 20, L_peak |-> 1000,
     T_avg |-> 220, T_amplitude |-> 30, T_lag |-> 120]

\* the scenario theta_init=90, theta_pwp=15, time_step=10 on a fast-draining soil
FastCfg == [DefaultCfg EXCEPT !.k = 2, !.total_time_minutes = 75, !.lambda_base = 150000]

\* a frost night in saturated soil: temperatures around -30 C
FrostCfg == [DefaultCfg EXCEPT !.k = 5, !.total_time_minutes = 60, !.theta_init = 10000,
                               !.T_avg = -300]

\* six-hour steps over one day, three samples per block, one sample left over
CoarseCfg == [DefaultCfg EXCEPT !.k = 3, !.total_time_minutes = 1440, !.time_step = 360]

\* one day in ten-minute steps, blocks of five
DayCfg == [DefaultCfg EXCEPT !.k = 5, !.total_time_minutes = 1440]

\* fewer samples than one block
TinyCfg == [DefaultCfg EXCEPT !.k = 6, !.total_time_minutes = 30]

\* a wilting point above the watering threshold, one-day steps
WiltCfg == [DefaultCfg EXCEPT !.k = 1, !.total_time_minutes = 7200, !.time_step = 1440,
                              !.theta_pwp = 4000]

\* a fast-draining soil with a wilting point above the watering threshold, in
\* ten-hour steps: lambda * time_step is above 9.6 in every step
ParchedCfg == [DefaultCfg EXCEPT !.k = 3, !.time_step = 600, !.theta_pwp = 4000,
                                 !.lambda_base = 20000]

Configs == {DefaultCfg, DayCfg, FastCfg, FrostCfg, CoarseCfg, TinyCfg, WiltCfg, ParchedCfg}

\* the configurations of few steps
ShortConfigs == {CoarseCfg, TinyCfg}

Seeds == 0 .. MaxSeed

\* calls with a time step of zero, a negative time step, a total time shorter
\* than one step, a wilting point of zero and a negative wilting point
ZeroStepCfg == [TinyCfg EXCEPT !.time_step = 0]
BackwardsCfg == [TinyCfg EXCEPT !.time_step = -10]
BriefCfg == [TinyCfg EXCEPT !.total_time_minutes = 5]
ZeroPwpCfg == [DayCfg EXCEPT !.theta_pwp = 0]
NegativePwpCfg == [CoarseCfg EXCEPT !.theta_pwp = -500]

\* the calls above, and one call that is in order
EntryConfigs == {ZeroStepCfg, BackwardsCfg, BriefCfg, ZeroPwpCfg, NegativePwpCfg, TinyCfg}

\* direct calls of calculate_lambda: moistures from 0 to twice the wilting
\* point in steps of theta_pwp / ProbeSteps, cold to hot, dark to bright
ProbeConfigs == {DefaultCfg, WiltCfg}
ProbeThetas(c) == {(j * c.theta_pwp) \div ProbeSteps : j \in 0 .. 2 * ProbeSteps}
ProbeTemperatures == {-300, 0, 220, 400}
ProbeLights == {0, 5000, 10000}

----------------------------------------------------------------------------
(* dataset.py: the simulation *)

t_peak == 720
watering_threshold == 2500

\* one draw from the generator: the function that drew, the distribution, and
\* the state of the generator that fixed the value
Draw(by, kind, state) == [by |-> by, kind |-> kind, state |-> state]

\* mutant of get_light: the sum of light and noise is returned as it is
get_light_unclipped(t, L_peak, s) ==
    LET cos_val == CosDay(t - t_peak * 100)
        L0      == Max(0, RoundDiv(L_peak * 10 * cos_val, ONE))
        s1      == RngNext(s)
        noise   == Normal(s1, 50)
        s2      == RngNext(s1)
        cloud   == Rand(s2) < 50 /\ L0 > 0
        s3      == IF cloud THEN RngNext(s2) ELSE s2
        cloud_factor == Uniform(s3, 100, 400)
        L1      == IF cloud THEN RoundDiv(L0 * (1000 - cloud_factor), 1000) ELSE L0
    IN  [value |-> L1 + noise, rng |-> s3,
         draws |-> <<Draw("get_light", "normal", s1), Draw("get_light", "rand", s2)>>
                   \o (IF cloud THEN <<Draw("get_light", "uniform", s3)>> ELSE <<>>)]

\* mutant of get_light: the cloud probability is drawn in daylight only
\* (L > 0 and np.random.rand() < 0.05)
get_light_cloud_draw_in_daylight(t, L_peak, s) ==
    LET cos_val == CosDay(t - t_peak * 100)
        L0      == Max(0, RoundDiv(L_peak * 10 * cos_val, ONE))
        s1      == RngNext(s)
        noise   == Normal(s1, 50)
        s2      == IF L0 > 0 THEN RngNext(s1) ELSE s1
        cloud   == L0 > 0 /\ Rand(s2) < 50
        s3      == IF cloud THEN RngNext(s2) ELSE s2
        cloud_factor == Uniform(s3, 100, 400)
        L1      == IF cloud THEN RoundDiv(L0 * (1000 - cloud_factor), 1000) ELSE L0
    IN  [value |-> Max(0, L1 + noise), rng |-> s3,
         draws |-> <<Draw("get_light", "normal", s1)>>
                   \o (IF L0 > 0 THEN <<Draw("get_light", "rand", s2)>> ELSE <<>>)
                   \o (IF cloud THEN <<Draw("get_light", "uniform", s3)>> ELSE <<>>)]

\* get_light(t, L_peak) with the generator in state s: the light and the state
\* of the generator after the draws (dataset.py:17-46)
get_light(t, L_peak, s) ==
    LET cos_val == CosDay(t - t_peak * 100)
        L0      == Max(0, RoundDiv(L_peak * 10 * cos_val, ONE))
        s1      == RngNext(s)
        noise   == Normal(s1, 50)
        s2      == RngNext(s1)
        cloud   == Rand(s2) < 50 /\ L0 > 0
        s3      == IF cloud THEN RngNext(s2) ELSE s2
        cloud_factor == Uniform(s3, 100, 400)
        L1      == IF cloud THEN RoundDiv(L0 * (1000 - cloud_factor), 1000) ELSE L0
    IN  [value |-> Max(0, L1 + noise), rng |-> s3,
         draws |-> <<Draw("get_light", "normal", s1), Draw("get_light", "rand", s2)>>
                   \o (IF cloud THEN <<Draw("get_light", "uniform", s3)>> ELSE <<>>)]

get_temperature(t, T_avg, A, t_lag, s) ==
    LET T  == T_avg + RoundDiv(A * CosDay(t - (t_peak + t_lag) * 100), ONE)
        s1 == RngNext(s)
    IN  [value |-> T + Normal(s1, 2), rng |-> s1,
         draws |-> <<Draw("get_temperature", "normal", s1)>>]

\* mutant of stress_coeff: the coefficient is clipped from above only
stress_coeff_without_floor(theta, theta_pwp) ==
    LET ratio == RoundDiv(theta * 1000, theta_pwp)
    IN  Min(RoundDiv(ratio * ratio, ONE), 100)

\* np.clip((theta / theta_pwp) ** 2, 0.05, 1.0), in percent (dataset.py:105-106)
stress_coeff(theta, theta_pwp) ==
    LET ratio == RoundDiv(theta * 1000, theta_pwp)
    IN  Clip(RoundDiv(ratio * ratio, ONE), 5, 100)

calculate_lambda(T, L, theta, K_soil, K_crop, lambda_base, c_temp, c_light, theta_pwp) ==
    LET lambda_base_soil == lambda_base * K_soil * 10
        lambda_env       == K_crop * (c_temp * T + c_light * L)
        lambda_total     == lambda_base_soil + lambda_env
    IN  IF theta <= theta_pwp
        THEN RoundDiv(lambda_total * stress_coeff(theta, theta_pwp), 100)
        ELSE lambda_total

\* int(a / b): the quotient truncated towards zero (b # 0)
int_div(a, b) ==
    LET q == (IF a < 0 THEN - a ELSE a) \div (IF b < 0 THEN - b ELSE b)
    IN  IF (a < 0) = (b < 0) THEN q ELSE - q

\* mutant of total_steps: the end point is counted as a step of its own
total_steps_inclusive(c) == int_div(c.total_time_minutes, c.time_step) + 1

\* int(total_time_minutes / time_step)
total_steps(c) == int_div(c.total_time_minutes, c.time_step)

\* np.linspace(0, stop, num)[j], in centi-minutes
linspace(stop, num, j) == IF num = 1 THEN 0 ELSE (j * stop * 100) \div (num - 1)

zeros(n) == [j \in 1 .. n |-> 0]

\* mutant of initial_humidity: the carried moisture outlives the call, as a
\* module-level variable set once would
initial_humidity_kept(c) == IF pc = "idle" THEN c.theta_init ELSE current_humidity

\* humidity_data[0] and current_humidity at the entry (dataset.py:151-152)
initial_humidity(c) == c.theta_init

NoStep == [step |-> -1, pre |-> 0, used |-> 0, lambda |-> 0, L |-> 0, T |-> 0, rng |-> 0,
           draws |-> <<>>]

\* mutant of watered: watering brings the soil to the wilting point
watered_to_wilting_point(c, h) == IF h <= watering_threshold THEN c.theta_pwp ELSE h

\* mutant of watered: the watering guard is missing
watered_never(c, h) == h

\* the moisture the decay of one iteration starts from (dataset.py:169-170)
watered(c, h) == IF h <= watering_threshold THEN c.theta_init ELSE h

\* mutant of exponential_update: one explicit Euler step of the decay
exponential_update_linear(c, h, lambda_i) ==
    h - RoundDiv((h - c.theta_pwp) * RoundDiv(lambda_i * c.time_step, ONE), ONE)

\* (current_humidity - theta_pwp) * np.exp(-lambda_i * time_step) + theta_pwp
\* (dataset.py:176)
exponential_update(c, h, lambda_i) ==
    RoundDiv((h - c.theta_pwp) * Exp(RoundDiv(- lambda_i * c.time_step, ONE)), ONE)
        + c.theta_pwp

\* mutant of decay: the exponent has the opposite sign
decay_growing(c, h, lambda_i) ==
    Max(0, RoundDiv((h - c.theta_pwp) * Exp(RoundDiv(lambda_i * c.time_step, ONE)), ONE)
           + c.theta_pwp)

\* the exponential update and the clamp of one iteration (dataset.py:176-179)
decay(c, h, lambda_i) == Max(0, exponential_update(c, h, lambda_i))

\* mutant of iteration: the moisture is reset after the decay of the step, not
\* before it
iteration_reset_after(c, h, T_i, L_i) ==
    LET lambda_i == calculate_lambda(T_i, L_i, h, c.K_soil, c.K_crop, c.lambda_base,
                                     c.c_temp, c.c_light, c.theta_pwp)
        next     == decay(c, h, lambda_i)
    IN  [used |-> h, lambda |-> lambda_i, next |-> watered(c, next)]

\* one iteration after the samples were drawn (dataset.py:168-179): the watering
\* guard, the decay rate, the update and the clamp
iteration(c, h, T_i, L_i) ==
    LET theta    == watered(c, h)
        lambda_i == calculate_lambda(T_i, L_i, theta, c.K_soil, c.K_crop, c.lambda_base,
                                     c.c_temp, c.c_light, c.theta_pwp)
    IN  [used |-> theta, lambda |-> lambda_i, next |-> decay(c, theta, lambda_i)]

NoExc == [at |-> "none", raised |-> "none", seen |-> "none"]

\* what the statements before the loop raise (dataset.py:147-151): the division by
\* time_step, np.linspace and np.zeros of a negative length, the store into
\* humidity_data[0] of an empty array; "none" when the loop is reached
entry_error(c) ==
    IF c.time_step = 0 THEN "ZeroDivisionError"
    ELSE IF total_steps(c) < 0 THEN "ValueError"
    ELSE IF total_steps(c) = 0 THEN "IndexError"
    ELSE "none"

\* mutant of propagate: the exception is caught and another one is raised
propagate_replaced(e) == "RuntimeError"

\* an exception raised inside synthetic_dataset meets no handler there
\* (dataset.py:200-201, 258-260): the caller sees the exception that was raised
propagate(e) == e

\* synthetic_dataset(c.k, ...) is called and enters full_data, which runs up to
\* its loop (dataset.py:200, 146-157); arrays are 1-based here
Enter(c) ==
    /\ entry_error(c) = "none"
    /\ exc' = NoExc
    /\ cfg' = c
    /\ pc' = "loop"
    /\ i' = 0
    /\ time' = [j \in 1 .. total_steps(c) |->
                   linspace(c.total_time_minutes, total_steps(c), j - 1)]
    /\ humidity_data' = [zeros(total_steps(c)) EXCEPT ![1] = initial_humidity(c)]
    /\ light_data' = zeros(total_steps(c))
    /\ temp_data' = zeros(total_steps(c))
    /\ current_humidity' = initial_humidity(c)
    /\ last' = NoStep
    /\ calls' = calls + 1
    /\ rng0' = rng
    /\ UNCHANGED <<rng, aggVars, streamVars, probe, wabVars, serialVars>>

\* the first call of the process
Call(c) ==
    /\ pc = "idle"
    /\ calls < MaxCalls
    /\ Enter(c)
    /\ UNCHANGED ref

\* the first call of the process is one that full_data leaves by an exception
\* before its loop (dataset.py:147-151); nothing was drawn, nothing is returned
CallRaises(c) ==
    /\ pc = "idle"
    /\ calls < MaxCalls
    /\ entry_error(c) # "none"
    /\ cfg' = c
    /\ pc' = "raised"
    /\ exc' = [at |-> "full_data", raised |-> entry_error(c),
               seen |-> propagate(entry_error(c))]
    /\ calls' = calls + 1
    /\ rng0' = rng
    /\ UNCHANGED <<rng, i, time, humidity_data, light_data, temp_data, current_humidity,
                   last, ref>>
    /\ UNCHANGED <<aggVars, streamVars, probe, wabVars, serialVars>>

\* one iteration of the loop (dataset.py:159-182)
FullDataStep ==
    /\ pc = "loop"
    /\ i < total_steps(cfg) - 1
    /\ LET t_minutes == time[i + 1]
           light     == get_light(t_minutes, cfg.L_peak, rng)
           temp      == get_temperature(t_minutes, cfg.T_avg, cfg.T_amplitude, cfg.T_lag,
                                        light.rng)
           L_i       == light.value
           T_i       == temp.value
           it        == iteration(cfg, current_humidity, T_i, L_i)
       IN  /\ light_data' = [light_data EXCEPT ![i + 1] = L_i]
           /\ temp_data' = [temp_data EXCEPT ![i + 1] = T_i]
           /\ current_humidity' = it.next
           /\ humidity_data' = [humidity_data EXCEPT ![i + 2] = it.next]
           /\ rng' = temp.rng
           /\ last' = [step |-> i, pre |-> current_humidity, used |-> it.used,
                       lambda |-> it.lambda, L |-> L_i, T |-> T_i, rng |-> rng,
                       draws |-> light.draws \o temp.draws]
    /\ i' = i + 1
    /\ UNCHANGED <<cfg, pc, time>>
    /\ UNCHANGED <<aggVars, streamVars, callVars, probe, wabVars, serialVars>>

\* mutant of FullDataReturn: the loop is also left when the soil needs water
FullDataReturn_when_dry ==
    /\ pc = "loop"
    /\ (i >= total_steps(cfg) - 1 \/ current_humidity <= watering_threshold)
    /\ pc' = "returned"
    /\ UNCHANGED <<cfg, rng, i, time, humidity_data, light_data, temp_data,
                   current_humidity, last>>
    /\ UNCHANGED <<aggVars, streamVars, callVars, probe, wabVars, serialVars>>

\* the loop is over: return time, humidity_data, light_data, temp_data (dataset.py:184)
FullDataReturn ==
    /\ pc = "loop"
    /\ i >= total_steps(cfg) - 1
    /\ pc' = "returned"
    /\ UNCHANGED <<cfg, rng, i, time, humidity_data, light_data, temp_data,
                   current_humidity, last>>
    /\ UNCHANGED <<aggVars, streamVars, callVars, probe, wabVars, serialVars>>

----------------------------------------------------------------------------
(* dataset.py: the aggregation *)

\* a[:n]
head(a, n) == SubSeq(a, 1, n)

\* mutant of reshape: column-major (Fortran) order
reshape_column_major(a, rows, cols) ==
    [j \in 1 .. rows |-> [c \in 1 .. cols |-> a[(c - 1) * rows + j]]]

\* a.reshape(rows, cols), row-major
reshape(a, rows, cols) == [j \in 1 .. rows |-> [c \in 1 .. cols |-> a[(j - 1) * cols + c]]]

\* Statistics of a block of n samples are exact rationals, kept as integers in
\* units of 1 / (100 n) of a sample unit.
RECURSIVE sum(_)
sum(b) == IF Len(b) = 0 THEN 0 ELSE b[1] + sum(Tail(b))

\* the r-th smallest sample of the block, r in 1..n
sorted(b, r) ==
    LET v == CHOOSE x \in {b[j] : j \in 1 .. Len(b)} :
                 /\ Cardinality({j \in 1 .. Len(b) : b[j] < x}) < r
                 /\ Cardinality({j \in 1 .. Len(b) : b[j] <= x}) >= r
    IN  v

np_mean(b) == 100 * sum(b)
np_min(b) == 100 * Len(b) * sorted(b, 1)
np_max(b) == 100 * Len(b) * sorted(b, Len(b))

\* mutant of np_percentile: the block is not sorted before it is indexed
np_percentile_unsorted(b, q) ==
    LET n    == Len(b)
        pos  == q * (n - 1)
        lo   == pos \div 100
        frac == pos % 100
        hi   == IF lo + 1 <= n - 1 THEN lo + 1 ELSE n - 1
    IN  n * (100 * b[lo + 1] + frac * (b[hi + 1] - b[lo + 1]))

\* np.percentile(b, q): linear interpolation between the order statistics
\* around the position q / 100 * (n - 1)
np_percentile(b, q) ==
    LET n    == Len(b)
        pos  == q * (n - 1)
        lo   == pos \div 100
        frac == pos % 100
        hi   == Min(lo + 1, n - 1)
    IN  n * (100 * sorted(b, lo + 1) + frac * (sorted(b, hi + 1) - sorted(b, lo + 1)))

stats == <<"mean", "min", "max", "25%", "75%">>
variables == <<"humidity", "light_data", "temp_data">>

\* pd.MultiIndex.from_product([variables, stats])
column_index == [n \in 1 .. Len(variables) * Len(stats) |->
                    <<variables[((n - 1) \div Len(stats)) + 1], stats[((n - 1) % Len(stats)) + 1]>>]

\* the five statistics of one block, in the order of np.column_stack
block_stats(b) == <<np_mean(b), np_min(b), np_max(b), np_percentile(b, 25), np_percentile(b, 75)>>

\* mutant of data_combined: the columns are stacked statistic by statistic, the
\* three signals within each statistic
data_combined_by_statistic(hum, light, temp) ==
    LET h == block_stats(hum)
        l == block_stats(light)
        t == block_stats(temp)
    IN  [n \in 1 .. 3 * Len(stats) |->
            LET st == ((n - 1) \div 3) + 1
                sg == ((n - 1) % 3) + 1
            IN  IF sg = 1 THEN h[st] ELSE IF sg = 2 THEN l[st] ELSE t[st]]

\* one row of np.column_stack([...]): humidity, then light, then temperature
data_combined(hum, light, temp) == block_stats(hum) \o block_stats(light) \o block_stats(temp)

\* mutant of range_index: the rows are numbered on from the table written before
range_index_running(n) == [j \in 1 .. n |-> Len(csv.index) + j - 1]

\* the default RangeIndex of pd.DataFrame(data_combined, columns=column_index)
range_index(n) == [j \in 1 .. n |-> j - 1]

\* data_len // k
num_blocks_of(data_len, k) == data_len \div k

NoTable == [index |-> <<>>, columns |-> <<>>, data |-> <<>>]

\* synthetic_dataset after full_data returned, up to the DataFrame (dataset.py:203-255)
Aggregate ==
    /\ pc = "returned"
    /\ LET data_len        == Len(humidity_data)
           num_blocks      == num_blocks_of(data_len, cfg.k)
           humidity_blocks == head(humidity_data, num_blocks * cfg.k)
           light_blocks    == head(light_data, num_blocks * cfg.k)
           temp_blocks     == head(temp_data, num_blocks * cfg.k)
           time_blocks     == head(time, num_blocks * cfg.k)
           humidity_reshaped == reshape(humidity_blocks, num_blocks, cfg.k)
           light_reshaped  == reshape(light_blocks, num_blocks, cfg.k)
           temp_reshaped   == reshape(temp_blocks, num_blocks, cfg.k)
       IN  /\ reshaped' = [humidity |-> humidity_reshaped, light |-> light_reshaped,
                           temp |-> temp_reshaped, time_blocks |-> time_blocks]
           /\ stats_df' = [index   |-> range_index(num_blocks),
                           columns |-> column_index,
                           data    |-> [j \in 1 .. num_blocks |->
                                          data_combined(humidity_reshaped[j], light_reshaped[j],
                                                        temp_reshaped[j])]]
    /\ pc' = "aggregated"
    /\ UNCHANGED <<cfg, rng, i, time, humidity_data, light_data, temp_data,
                   current_humidity, last>>
    /\ UNCHANGED <<csv, streamVars, callVars, probe, wabVars, serialVars>>

\* the table is written and returned (dataset.py:258-262)
SaveCsv ==
    /\ pc = "aggregated"
    /\ csv' = stats_df
    /\ pc' = "saved"
    /\ UNCHANGED <<cfg, rng, i, time, humidity_data, light_data, temp_data,
                   current_humidity, last>>
    /\ UNCHANGED <<reshaped, stats_df, streamVars, callVars, probe, wabVars, serialVars>>

\* the failures of the sink: open(..., 'w') raises, or to_csv raises on the open file
SinkFaults ==
    {[at |-> "open", raised |-> "FileNotFoundError"],
     [at |-> "open", raised |-> "PermissionError"],
     [at |-> "to_csv", raised |-> "OSError"]}

\* open() or to_csv() raises: the exception leaves synthetic_dataset
\* (dataset.py:258-259); a file that was opened for writing has lost its content
SaveCsvRaises ==
    /\ pc = "aggregated"
    /\ \E f \in SinkFaults :
          /\ exc' = [at |-> f.at, raised |-> f.raised, seen |-> propagate(f.raised)]
          /\ csv' = IF f.at = "open" THEN csv ELSE NoTable
    /\ pc' = "raised"
    /\ UNCHANGED <<cfg, rng, i, time, humidity_data, light_data, temp_data,
                   current_humidity, last>>
    /\ UNCHANGED <<reshaped, stats_df, streamVars, calls, rng0, ref, probe, wabVars, serialVars>>

----------------------------------------------------------------------------
(* local_host_data.py *)

\* mutant of flat_columns: only the first level of the label is kept
flat_columns_first_level(df) == [n \in 1 .. Len(df.columns) |-> df.columns[n][1]]

\* '_'.join(col).strip() for col in df.columns.values
flat_columns(df) == [n \in 1 .. Len(df.columns) |-> df.columns[n][1] \o "_" \o df.columns[n][2]]

\* dict(zip(flat_columns, row_tuple[1:]))
zip_dict(keys, values) ==
    [key \in {keys[n] : n \in 1 .. Min(Len(keys), Len(values))} |->
        values[CHOOSE n \in 1 .. Min(Len(keys), Len(values)) :
                  /\ keys[n] = key
                  /\ \A m \in 1 .. Min(Len(keys), Len(values)) : keys[m] = key => m <= n]]

\* mutant of data_row: itertuples(index=False), so that row_tuple[0] is the first
\* value and row_tuple[1:] starts at the second
data_row_without_index(df, r) ==
    [index |-> df.data[r][1], data |-> zip_dict(flat_columns(df), Tail(df.data[r]))]

\* the message of the r-th row of itertuples, r in 1..len(df)
data_row(df, r) == [index |-> df.index[r], data |-> zip_dict(flat_columns(df), df.data[r])]

StreamComplete == [status |-> "Stream complete"]

\* stream_stats after synthetic_dataset returned: the generator is created
\* and handed to the Response (local_host_data.py:73-76)
StreamStats ==
    /\ pc = "saved"
    /\ pc' = "streaming"
    /\ row' = 0
    /\ sent' = <<>>
    /\ UNCHANGED <<simVars_but_pc, aggVars, callVars, probe, wabVars, serialVars>>

\* mutant of StreamRow: the rows are yielded from the last one to the first one
StreamRow_last_first ==
    /\ pc = "streaming"
    /\ row < Len(stats_df.data)
    /\ sent' = Append(sent, data_row(stats_df, Len(stats_df.data) - row))
    /\ row' = row + 1
    /\ UNCHANGED <<simVars, aggVars, callVars, probe, wabVars, serialVars>>

\* next(generator) inside the loop: one row is yielded (local_host_data.py:38-53)
StreamRow ==
    /\ pc = "streaming"
    /\ row < Len(stats_df.data)
    /\ sent' = Append(sent, data_row(stats_df, row + 1))
    /\ row' = row + 1
    /\ UNCHANGED <<simVars, aggVars, callVars, probe, wabVars, serialVars>>

\* next(generator) after the loop: the completion message (local_host_data.py:56)
StreamSentinel ==
    /\ pc = "streaming"
    /\ row >= Len(stats_df.data)
    /\ sent' = Append(sent, StreamComplete)
    /\ pc' = "complete"
    /\ UNCHANGED <<simVars_but_pc, row, aggVars, callVars, probe, wabVars, serialVars>>

\* next(generator) once more: the generator returns, nothing is yielded
StreamExhausted ==
    /\ pc = "complete"
    /\ pc' = "closed"
    /\ UNCHANGED <<simVars_but_pc, streamVars, aggVars, callVars, probe, wabVars, serialVars>>

----------------------------------------------------------------------------
(* wab_stream.py: fetch_wab_data *)

\* st.session_state before the first call, as the first call initialises it
\* (wab_stream.py:45-55), with the slider's default (application.py:103-112);
\* a timestamp of 0 stands for None, an api of "None" for None
NoSession ==
    [last_wab_fetch_time |-> 0, last_wab_timestamp |-> 0, last_wab_step |-> -1,
     wab_api |-> "None", wab_poll_interval |-> 10]

\* positions of the slider that are explored (application.py:103-110)
PollIntervals == {5, 10}

\* time.time() when the session starts: later than any polling interval after
\* the epoch
StartTime == 60

\* seconds that pass between two events: one step of the slider
Delays == {5}

\* the _timestamp W&B gave the record of a step of a run: never empty, and
\* different for different records
record_timestamp(run, step) == run * (MaxStep + 2) + step + 1

\* mutant of fetch_time_of_call: the time of the call is not stored
fetch_time_not_stored(current_time, last_fetch_time) == last_fetch_time

\* st.session_state.last_wab_fetch_time = current_time (wab_stream.py:66)
fetch_time_of_call(current_time, last_fetch_time) == current_time

\* time_since_last_fetch < MIN_FETCH_INTERVAL (wab_stream.py:58-63)
too_soon(s) == now - s.last_wab_fetch_time < s.wab_poll_interval

\* mutant of no_new_step: the step stored is not excluded
no_new_step_strict(current_step, last_step) == current_step < last_step

\* current_step <= st.session_state.last_wab_step (wab_stream.py:89)
no_new_step(current_step, last_step) == current_step <= last_step

\* mutant of kept_on_failure: the step that was read is stored before the
\* history is fetched
stored_before_history(stored, read) == read

\* the paths that return [] store nothing: last_wab_step and
\* last_wab_timestamp are assigned at lines 145-146 only
kept_on_failure(stored, read) == stored

NoFetch == [pc |-> "idle", run |-> 0, current_step |-> -1, at |-> 0]
NoCall ==
    [outcome |-> "none", at |-> 0, contacted |-> FALSE, previous_contact |-> 0,
     before |-> NoSession, result |-> <<>>, undelivered |-> <<>>, recovered |-> <<>>]

\* the run api.runs(project, order="-created_at")[0] and its lastHistoryStep
latest_run == Len(wab_runs)
lastHistoryStep(run) == wab_runs[run]

\* the step of the latest run that no call has delivered yet, if there is one
Undelivered ==
    IF latest_run > 0 /\ lastHistoryStep(latest_run) > session_state.last_wab_step
    THEN <<[run |-> latest_run, step |-> lastHistoryStep(latest_run)]>>
    ELSE <<>>

\* the session state after lines 60-69 of a call that was not too soon
Contacted(s, api) ==
    [s EXCEPT !.last_wab_fetch_time = fetch_time_of_call(now, s.last_wab_fetch_time),
              !.wab_api = api]

\* the ways a call fails: no API, an exception, no runs, an empty history
Failures == {"no_api", "raised", "no_runs", "empty_history"}

\* a call returns []: what it did, and the step a failure has left undelivered
Returns(outcome, contacted, before) ==
    [outcome |-> outcome, at |-> now, contacted |-> contacted,
     previous_contact |-> last_contact, before |-> before, result |-> <<>>,
     undelivered |-> IF outcome \in Failures /\ Undelivered # <<>> THEN Undelivered
                     ELSE wab_last.undelivered,
     recovered |-> <<>>]

\* a call less than the polling interval after the last fetch (wab_stream.py:60-64)
FetchThrottled ==
    /\ fetch.pc = "idle"
    /\ too_soon(session_state)
    /\ wab_last' = Returns("throttled", FALSE, session_state)
    /\ UNCHANGED <<now, session_state, wab_runs, fetch, delivered, last_contact>>
    /\ UNCHANGED <<plantVars, serialVars>>

\* initialize_wandb_api returns None: no key, or the authentication failed
\* (wab_stream.py:66-72)
FetchApiUnavailable ==
    /\ fetch.pc = "idle"
    /\ ~ too_soon(session_state)
    /\ session_state.wab_api = "None"
    /\ session_state' = Contacted(session_state, "None")
    /\ last_contact' = now
    /\ wab_last' = Returns("no_api", TRUE, session_state)
    /\ UNCHANGED <<now, wab_runs, fetch, delivered>>
    /\ UNCHANGED <<plantVars, serialVars>>

\* api.runs or lastHistoryStep raises; the handler returns [] (wab_stream.py:80-86, 150-154)
FetchRaises ==
    /\ fetch.pc = "idle"
    /\ ~ too_soon(session_state)
    /\ session_state' = Contacted(session_state, "Api")
    /\ last_contact' = now
    /\ wab_last' = Returns("raised", TRUE, session_state)
    /\ UNCHANGED <<now, wab_runs, fetch, delivered>>
    /\ UNCHANGED <<plantVars, serialVars>>

\* the project has no runs (wab_stream.py:80-83)
FetchNoRuns ==
    /\ fetch.pc = "idle"
    /\ ~ too_soon(session_state)
    /\ latest_run = 0
    /\ session_state' = Contacted(session_state, "Api")
    /\ last_contact' = now
    /\ wab_last' = Returns("no_runs", TRUE, session_state)
    /\ UNCHANGED <<now, wab_runs, fetch, delivered>>
    /\ UNCHANGED <<plantVars, serialVars>>

\* the latest run has no step beyond the stored one (wab_stream.py:85-90)
FetchNoNewStep ==
    /\ fetch.pc = "idle"
    /\ ~ too_soon(session_state)
    /\ latest_run > 0
    /\ no_new_step(lastHistoryStep(latest_run), session_state.last_wab_step)
    /\ session_state' = Contacted(session_state, "Api")
    /\ last_contact' = now
    /\ wab_last' = Returns("no_new_step", TRUE, session_state)
    /\ UNCHANGED <<now, wab_runs, fetch, delivered>>
    /\ UNCHANGED <<plantVars, serialVars>>

\* the latest run has a new step: scan_history is requested (wab_stream.py:85-94)
FetchScans ==
    /\ fetch.pc = "idle"
    /\ ~ too_soon(session_state)
    /\ latest_run > 0
    /\ ~ no_new_step(lastHistoryStep(latest_run), session_state.last_wab_step)
    /\ session_state' = Contacted(session_state, "Api")
    /\ last_contact' = now
    /\ fetch' = [pc |-> "scan", run |-> latest_run,
                 current_step |-> lastHistoryStep(latest_run), at |-> now]
    /\ wab_last' = Returns("scanning", TRUE, session_state)
    /\ UNCHANGED <<now, wab_runs, delivered>>
    /\ UNCHANGED <<plantVars, serialVars>>

\* what a call that ends inside or after scan_history leaves behind
Scanned(outcome, step, timestamp, result) ==
    /\ fetch.pc = "scan"
    /\ session_state' = [session_state EXCEPT !.last_wab_step = step,
                                              !.last_wab_timestamp = timestamp]
    /\ fetch' = NoFetch
    /\ wab_last' = [wab_last EXCEPT
                        !.outcome = outcome,
                        !.result = result,
                        !.undelivered =
                            IF outcome = "sample" THEN <<>>
                            ELSE IF outcome \in Failures
                            THEN <<[run |-> fetch.run, step |-> fetch.current_step]>>
                            ELSE @,
                        !.recovered = IF outcome = "sample" THEN wab_last.undelivered
                                      ELSE <<>>]
    /\ delivered' = delivered \o result
    /\ UNCHANGED <<now, wab_runs, last_contact>>
    /\ UNCHANGED <<plantVars, serialVars>>

\* scan_history raises; the handler returns [] (wab_stream.py:94, 150-154)
ScanRaises ==
    /\ fetch.pc = "scan"
    /\ Scanned("raised",
               kept_on_failure(session_state.last_wab_step, fetch.current_step),
               session_state.last_wab_timestamp, <<>>)

\* scan_history yields no record (wab_stream.py:101-102)
ScanEmpty ==
    /\ fetch.pc = "scan"
    /\ Scanned("empty_history",
               kept_on_failure(session_state.last_wab_step, fetch.current_step),
               session_state.last_wab_timestamp, <<>>)

\* the last record is the one whose timestamp is stored (wab_stream.py:104-110)
ScanSameTimestamp ==
    /\ fetch.pc = "scan"
    /\ record_timestamp(fetch.run, lastHistoryStep(fetch.run))
           = session_state.last_wab_timestamp
    /\ Scanned("same_timestamp",
               kept_on_failure(session_state.last_wab_step, fetch.current_step),
               session_state.last_wab_timestamp, <<>>)

\* the last record of the history from current_step on is returned, and the
\* step and the timestamp are stored (wab_stream.py:104-148)
ScanSample ==
    /\ fetch.pc = "scan"
    /\ record_timestamp(fetch.run, lastHistoryStep(fetch.run))
           # session_state.last_wab_timestamp
    /\ Scanned("sample", fetch.current_step,
               record_timestamp(fetch.run, lastHistoryStep(fetch.run)),
               <<[run |-> fetch.run, step |-> fetch.current_step,
                  record |-> lastHistoryStep(fetch.run),
                  timestamp |-> record_timestamp(fetch.run, lastHistoryStep(fetch.run))]>>)

\* time passes
Tick ==
    /\ \E d \in Delays : now + d <= StartTime + MaxElapsed /\ now' = now + d
    /\ UNCHANGED <<session_state, wab_runs, fetch, wab_last, delivered, last_contact>>
    /\ UNCHANGED <<plantVars, serialVars>>

\* the user moves the slider of the polling interval (application.py:103-112)
SetPollInterval ==
    /\ fetch.pc = "idle"
    /\ \E v \in PollIntervals :
          /\ v # session_state.wab_poll_interval
          /\ session_state' = [session_state EXCEPT !.wab_poll_interval = v]
    /\ UNCHANGED <<now, wab_runs, fetch, wab_last, delivered, last_contact>>
    /\ UNCHANGED <<plantVars, serialVars>>

\* the board's server logs one more step to the latest run
RemoteLog ==
    /\ latest_run > 0
    /\ lastHistoryStep(latest_run) < MaxStep
    /\ wab_runs' = [wab_runs EXCEPT ![latest_run] = @ + 1]
    /\ UNCHANGED <<now, session_state, fetch, wab_last, delivered, last_contact>>
    /\ UNCHANGED <<plantVars, serialVars>>

\* a new run is created in the project; it has no history yet
RemoteNewRun ==
    /\ latest_run < MaxRuns
    /\ wab_runs' = Append(wab_runs, -1)
    /\ UNCHANGED <<now, session_state, fetch, wab_last, delivered, last_contact>>
    /\ UNCHANGED <<plantVars, serialVars>>

----------------------------------------------------------------------------
(* SerialManager (Server/server.py) *)

\* SerialManager.__init__ has returned: the port is open, the queue is empty
NoThread == [pc |-> "unstarted", data |-> <<>>, error |-> "none"]
OpenPort == [is_open |-> TRUE, in_waiting |-> <<>>]
MainThread == [pc |-> "constructed", raised |-> "none"]

\* mutant of joined: join() returns while the thread is still running
joined_without_wait(thread) == TRUE

\* self.read_thread.join() returns once the thread has terminated
joined(thread) == thread.pc = "terminated"

\* the board writes one byte to the line; bytes are numbered as they are sent
BoardSends ==
    /\ sent_bytes < MaxBytes
    /\ serial.is_open
    /\ sent_bytes' = sent_bytes + 1
    /\ serial' = [serial EXCEPT !.in_waiting = Append(@, sent_bytes + 1)]
    /\ UNCHANGED <<running, read_queue, read_thread, caller, read_log, received>>
    /\ UNCHANGED <<plantVars, wabVars>>

\* start(): running = True, the thread is created and started
SerialStart ==
    /\ caller.pc = "constructed"
    /\ running' = TRUE
    /\ read_thread' = [NoThread EXCEPT !.pc = "while"]
    /\ caller' = [caller EXCEPT !.pc = "started"]
    /\ UNCHANGED <<serial, read_queue, read_log, received, sent_bytes>>
    /\ UNCHANGED <<plantVars, wabVars>>

\* _reader: while self.running
ReaderWhile ==
    /\ read_thread.pc = "while"
    /\ read_thread' = [read_thread EXCEPT !.pc = IF running THEN "in_waiting"
                                                 ELSE "terminated"]
    /\ UNCHANGED <<running, serial, read_queue, caller, read_log, received, sent_bytes>>
    /\ UNCHANGED <<plantVars, wabVars>>

\* _reader: if self.serial.in_waiting, then time.sleep(0.5); otherwise
\* time.sleep(0.001) and the next iteration. On a closed port pyserial raises.
ReaderInWaiting ==
    /\ read_thread.pc = "in_waiting"
    /\ read_thread' =
           IF ~ serial.is_open
           THEN [read_thread EXCEPT !.pc = "terminated", !.error = "port closed"]
           ELSE IF serial.in_waiting # <<>>
           THEN [read_thread EXCEPT !.pc = "read"]
           ELSE [read_thread EXCEPT !.pc = "while"]
    /\ UNCHANGED <<running, serial, read_queue, caller, read_log, received, sent_bytes>>
    /\ UNCHANGED <<plantVars, wabVars>>

\* _reader: data = self.serial.read(self.serial.in_waiting), every byte that
\* is waiting by now
ReaderRead ==
    /\ read_thread.pc = "read"
    /\ IF ~ serial.is_open
       THEN /\ read_thread' = [read_thread EXCEPT !.pc = "terminated",
                                                  !.error = "port closed"]
            /\ UNCHANGED <<serial, read_log>>
       ELSE /\ read_thread' = [read_thread EXCEPT !.pc = "put",
                                                  !.data = serial.in_waiting]
            /\ serial' = [serial EXCEPT !.in_waiting = <<>>]
            /\ read_log' = Append(read_log, serial.in_waiting)
    /\ UNCHANGED <<running, read_queue, caller, received, sent_bytes>>
    /\ UNCHANGED <<plantVars, wabVars>>

\* _reader: self.read_queue.put(data); time.sleep(0.001)
ReaderPut ==
    /\ read_thread.pc = "put"
    /\ read_queue' = Append(read_queue, read_thread.data)
    /\ read_thread' = [read_thread EXCEPT !.pc = "while", !.data = <<>>]
    /\ UNCHANGED <<running, serial, caller, read_log, received, sent_bytes>>
    /\ UNCHANGED <<plantVars, wabVars>>

\* _reader: the device fails (SerialException): the thread ends with the
\* exception, nothing catches it
ReaderRaises ==
    /\ read_thread.pc \in {"in_waiting", "read"}
    /\ serial.is_open
    /\ read_thread' = [read_thread EXCEPT !.pc = "terminated", !.error = "device"]
    /\ UNCHANGED <<running, serial, read_queue, caller, read_log, received, sent_bytes>>
    /\ UNCHANGED <<plantVars, wabVars>>

\* receive(timeout): self.read_queue.get(timeout=timeout) returns the oldest chunk
Receive ==
    /\ caller.pc \in {"started", "stopped"}
    /\ read_queue # <<>>
    /\ received' = Append(received, Head(read_queue))
    /\ read_queue' = Tail(read_queue)
    /\ caller' = [caller EXCEPT !.raised = "none"]
    /\ UNCHANGED <<running, serial, read_thread, read_log, sent_bytes>>
    /\ UNCHANGED <<plantVars, wabVars>>

\* receive(timeout): nothing arrived within the timeout, queue.Empty is raised
ReceiveEmpty ==
    /\ caller.pc \in {"started", "stopped"}
    /\ read_queue = <<>>
    /\ caller' = [caller EXCEPT !.raised = "queue.Empty"]
    /\ UNCHANGED <<running, serial, read_queue, read_thread, read_log, received,
                   sent_bytes>>
    /\ UNCHANGED <<plantVars, wabVars>>

\* stop(): self.running = False
Stop ==
    /\ caller.pc = "started"
    /\ running' = FALSE
    /\ caller' = [caller EXCEPT !.pc = "join", !.raised = "none"]
    /\ UNCHANGED <<serial, read_queue, read_thread, read_log, received, sent_bytes>>
    /\ UNCHANGED <<plantVars, wabVars>>

\* stop() before start(): there is no self.read_thread yet
StopUnstarted ==
    /\ caller.pc = "constructed"
    /\ running' = FALSE
    /\ caller' = [caller EXCEPT !.pc = "failed", !.raised = "AttributeError"]
    /\ UNCHANGED <<serial, read_queue, read_thread, read_log, received, sent_bytes>>
    /\ UNCHANGED <<plantVars, wabVars>>

\* stop(): self.read_thread.join()
StopJoin ==
    /\ caller.pc = "join"
    /\ joined(read_thread)
    /\ caller' = [caller EXCEPT !.pc = "close"]
    /\ UNCHANGED <<running, serial, read_queue, read_thread, read_log, received,
                   sent_bytes>>
    /\ UNCHANGED <<plantVars, wabVars>>

\* stop(): self.serial.close()
StopClose ==
    /\ caller.pc = "close"
    /\ serial' = [serial EXCEPT !.is_open = FALSE]
    /\ caller' = [caller EXCEPT !.pc = "stopped"]
    /\ UNCHANGED <<running, read_queue, read_thread, read_log, received, sent_bytes>>
    /\ UNCHANGED <<plantVars, wabVars>>

----------------------------------------------------------------------------
(* Specifications *)

NoBlocks == [humidity |-> <<>>, light |-> <<>>, temp |-> <<>>, time_blocks |-> <<>>]
NoCfg == [k |-> 0]
NoRef == [calls |-> 0]

\* what the running call was given and what it has produced
Snapshot ==
    [calls |-> calls, cfg |-> cfg, rng0 |-> rng0, outcome |-> pc, time |-> time,
     humidity_data |-> humidity_data, light_data |-> light_data, temp_data |-> temp_data,
     stats_df |-> stats_df]

\* synthetic_dataset is called again in the same process, after the previous
\* call returned or raised; the generator goes on from where it is
CallAgain(c) ==
    /\ pc \in {"saved", "raised"}
    /\ calls < MaxCalls
    /\ Enter(c)
    /\ ref' = IF ref = NoRef THEN Snapshot ELSE ref

\* the caller seeds numpy's global generator between two calls: np.random.seed(s)
Seed ==
    /\ pc \in {"saved", "raised"}
    /\ calls < MaxCalls
    /\ \E s \in Seeds : rng' = s
    /\ UNCHANGED <<simVars_but_rng, aggVars, streamVars, callVars, probe, wabVars, serialVars>>

NoProbe == [result |-> 0]

\* a process has started; nothing was called yet
Init ==
    /\ rng \in Seeds
    /\ pc = "idle"
    /\ cfg = NoCfg
    /\ i = 0
    /\ time = <<>>
    /\ humidity_data = <<>>
    /\ light_data = <<>>
    /\ temp_data = <<>>
    /\ current_humidity = 0
    /\ last = NoStep
    /\ reshaped = NoBlocks
    /\ stats_df = NoTable
    /\ csv = NoTable
    /\ row = 0
    /\ sent = <<>>
    /\ calls = 0
    /\ rng0 = 0
    /\ ref = NoRef
    /\ exc = NoExc
    /\ probe = NoProbe
    /\ now = StartTime
    /\ session_state = NoSession
    /\ wab_runs = <<>>
    /\ fetch = NoFetch
    /\ wab_last = NoCall
    /\ delivered = <<>>
    /\ last_contact = 0
    /\ running = FALSE
    /\ serial = OpenPort
    /\ read_queue = <<>>
    /\ read_thread = NoThread
    /\ caller = MainThread
    /\ read_log = <<>>
    /\ received = <<>>
    /\ sent_bytes = 0

vars == <<simVars, aggVars, streamVars, callVars, probe, wabVars, serialVars>>

\* One request to /stream_stats: synthetic_dataset, then the stream.
Next ==
    \/ \E c \in Configs : Call(c)
    \/ FullDataStep
    \/ FullDataReturn
    \/ Aggregate
    \/ SaveCsv
    \/ SaveCsvRaises
    \/ StreamStats
    \/ StreamRow
    \/ StreamSentinel
    \/ StreamExhausted

Spec == Init /\ [][Next]_vars

\* Calls of synthetic_dataset one after the other in one process, each of which
\* writes its table; the caller may seed the generator between two calls.
NextCalls ==
    \/ \E c \in ShortConfigs : Call(c)
    \/ FullDataStep
    \/ FullDataReturn
    \/ Aggregate
    \/ SaveCsv
    \/ \E c \in ShortConfigs : CallAgain(c)
    \/ Seed

SpecCalls == Init /\ [][NextCalls]_vars

\* One request to /stream_stats whose simulation covers at most one day, the
\* interpreter running the statements of full_data one after the other.
NextFair ==
    \/ \E c \in Configs \ {DefaultCfg} : Call(c)
    \/ FullDataStep
    \/ FullDataReturn
    \/ Aggregate
    \/ SaveCsv
    \/ SaveCsvRaises
    \/ StreamStats
    \/ StreamRow
    \/ StreamSentinel
    \/ StreamExhausted

SpecFair == Init /\ [][NextFair]_vars /\ WF_vars(FullDataStep) /\ WF_vars(FullDataReturn)

\* One call of synthetic_dataset whose arguments may be out of range.
NextEntry ==
    \/ \E c \in EntryConfigs : Call(c)
    \/ \E c \in EntryConfigs : CallRaises(c)
    \/ FullDataStep
    \/ FullDataReturn
    \/ Aggregate
    \/ SaveCsv

SpecEntry == Init /\ [][NextEntry]_vars

\* calculate_lambda(T, L, theta, ...) is called directly
CalculateLambda ==
    /\ pc = "idle"
    /\ \E c \in ProbeConfigs :
          \E theta \in ProbeThetas(c), T \in ProbeTemperatures, L \in ProbeLights :
              probe' = [T |-> T, L |-> L, theta |-> theta, cfg |-> c,
                        result |-> calculate_lambda(T, L, theta, c.K_soil, c.K_crop,
                                                    c.lambda_base, c.c_temp, c.c_light,
                                                    c.theta_pwp)]
    /\ UNCHANGED <<simVars, aggVars, streamVars, callVars, wabVars, serialVars>>

\* Direct calls of calculate_lambda, one after the other.
NextLambda == CalculateLambda

SpecLambda == Init /\ [][NextLambda]_vars

\* One Streamlit session in W&B mode: the script calls fetch_wab_data again and
\* again while time passes, the user moves the slider, and the project grows.
NextWab ==
    \/ FetchThrottled
    \/ FetchApiUnavailable
    \/ FetchRaises
    \/ FetchNoRuns
    \/ FetchNoNewStep
    \/ FetchScans
    \/ ScanRaises
    \/ ScanEmpty
    \/ ScanSameTimestamp
    \/ ScanSample
    \/ Tick
    \/ SetPollInterval
    \/ RemoteLog
    \/ RemoteNewRun

InitWab == Init /\ rng = 0

SpecWab == InitWab /\ [][NextWab]_vars

\* The acquisition server: one SerialManager, its reader thread, the board.
NextSerial ==
    \/ BoardSends
    \/ SerialStart
    \/ ReaderWhile
    \/ ReaderInWaiting
    \/ ReaderRead
    \/ ReaderPut
    \/ ReaderRaises
    \/ Receive
    \/ ReceiveEmpty
    \/ Stop
    \/ StopUnstarted
    \/ StopJoin
    \/ StopClose

InitSerial == Init /\ rng = 0

SpecSerial == InitSerial /\ [][NextSerial]_vars

----------------------------------------------------------------------------
(* Properties of the simulation *)

\* the samples of humidity_data that the loop has written so far are 1 .. i + 1
Simulating == pc # "idle"

\* the decay rate of the iteration that read light_data[n] and temp_data[n],
\* had it started from moisture theta
LambdaAt(n, theta) ==
    calculate_lambda(temp_data[n], light_data[n], theta, cfg.K_soil, cfg.K_crop,
                     cfg.lambda_base, cfg.c_temp, cfg.c_light, cfg.theta_pwp)

\* C1: in every iteration whose carried moisture is <= 25.0 the decay rate and
\* the exponential update both start from theta_init; in every other iteration
\* both start from the carried moisture unchanged.
C1_ResetBeforeDecay ==
    Simulating =>
        /\ \A n \in 1 .. i :
              LET pre   == humidity_data[n]
                  start == IF pre <= watering_threshold THEN cfg.theta_init ELSE pre
              IN  humidity_data[n + 1] = decay(cfg, start, LambdaAt(n, start))
        /\ last.step >= 0 =>
              /\ last.pre = humidity_data[last.step + 1]
              /\ last.used = IF last.pre <= watering_threshold THEN cfg.theta_init
                                                                ELSE last.pre
              /\ last.lambda = LambdaAt(last.step + 1, last.used)

\* an iteration of the default run that started at or below the threshold
C1_Witness ==
    /\ cfg = DefaultCfg
    /\ last.step >= 0
    /\ last.pre <= watering_threshold
    /\ last.used = cfg.theta_init
    /\ humidity_data[i + 1] > watering_threshold

\* C2: every value stored in the humidity series is within [0, 100].
C2_HumidityWithinPercent ==
    (/\ Simulating
     /\ 0 < cfg.theta_pwp /\ cfg.theta_pwp < cfg.theta_init /\ cfg.theta_init <= 10000
     /\ cfg.time_step > 0)
        => \A n \in 1 .. Len(humidity_data) :
              0 <= humidity_data[n] /\ humidity_data[n] <= 10000

\* C3: every decay rate computed by calculate_lambda during a simulation is >= 0.
C3_LambdaNonNegative ==
    (/\ last.step >= 0
     /\ last.L >= 0
     /\ cfg.K_soil >= 0 /\ cfg.K_crop >= 0 /\ cfg.lambda_base >= 0
     /\ cfg.c_temp >= 0 /\ cfg.c_light >= 0)
        => last.lambda >= 0

\* the scenario of C8: theta_init = 90, theta_pwp = 15, threshold 25, time_step = 10
Scenario ==
    /\ Simulating
    /\ cfg.theta_init = 9000
    /\ cfg.theta_pwp = 1500
    /\ cfg.time_step = 10

\* C8 as claimed: a recorded sample <= 25 is followed by a recorded sample equal
\* to theta_init.
C8_NextSampleIsThetaInit ==
    Scenario =>
        \A n \in 1 .. i :
            humidity_data[n] <= watering_threshold => humidity_data[n + 1] = cfg.theta_init

\* C8 as amended: a recorded sample <= 25 is followed by theta_init decayed over
\* one step, which is below theta_init whenever the decay rate is positive.
C8_NextSampleIsDecayedThetaInit ==
    Scenario =>
        \A n \in 1 .. i :
            humidity_data[n] <= watering_threshold =>
                LET lambda_i == LambdaAt(n, cfg.theta_init)
                IN  /\ humidity_data[n + 1] = decay(cfg, cfg.theta_init, lambda_i)
                    /\ lambda_i > 0 => humidity_data[n + 1] < cfg.theta_init

\* the default run has recorded a sample at or below the threshold and the next one
C8_Witness ==
    /\ Scenario
    /\ cfg = DefaultCfg
    /\ \E n \in 1 .. i : humidity_data[n] <= watering_threshold

----------------------------------------------------------------------------
(* Properties of the aggregation *)

\* stats_df holds the table of the running call
Aggregated ==
    \/ pc \in {"aggregated", "saved", "streaming", "complete", "closed"}
    \/ pc = "raised" /\ exc.at # "full_data"

Rows == 1 .. Len(stats_df.data)

\* the value of row j under the column label (variable, statistic)
Cell(j, variable, statistic) ==
    stats_df.data[j][CHOOSE n \in 1 .. Len(stats_df.columns) :
                        stats_df.columns[n] = <<variable, statistic>>]

Signals == {variables[n] : n \in 1 .. Len(variables)}

\* C4 as claimed: in every row and for each signal, min <= p25 <= mean <= p75 <= max.
C4_MeanBetweenQuartiles ==
    Aggregated =>
        \A j \in Rows, v \in Signals :
            /\ Cell(j, v, "min") <= Cell(j, v, "25%")
            /\ Cell(j, v, "25%") <= Cell(j, v, "mean")
            /\ Cell(j, v, "mean") <= Cell(j, v, "75%")
            /\ Cell(j, v, "75%") <= Cell(j, v, "max")

\* C4 as amended: in every row and for each signal, min <= p25 <= p75 <= max and
\* min <= mean <= max; the mean need not lie between the quartiles.
C4_QuartilesAndMeanWithinRange ==
    Aggregated =>
        \A j \in Rows, v \in Signals :
            /\ Cell(j, v, "min") <= Cell(j, v, "25%")
            /\ Cell(j, v, "25%") <= Cell(j, v, "75%")
            /\ Cell(j, v, "75%") <= Cell(j, v, "max")
            /\ Cell(j, v, "min") <= Cell(j, v, "mean")
            /\ Cell(j, v, "mean") <= Cell(j, v, "max")

\* a table of the default call with a block whose mean is outside its quartiles
C4_Witness ==
    /\ pc = "aggregated"
    /\ cfg = DefaultCfg
    /\ \E j \in Rows, v \in Signals :
          \/ Cell(j, v, "mean") > Cell(j, v, "75%")
          \/ Cell(j, v, "mean") < Cell(j, v, "25%")

\* C5: the table has floor(N / k) rows, N = floor(total_time_minutes / time_step);
\* 7200, 10, k = 6 gives 120 rows; k > N gives none.
C5_RowCount ==
    Aggregated =>
        LET N == cfg.total_time_minutes \div cfg.time_step
        IN  /\ cfg.k >= 1
            /\ Len(stats_df.data) = N \div cfg.k
            /\ Len(stats_df.index) = N \div cfg.k
            /\ cfg.k > N => Len(stats_df.data) = 0
            /\ (cfg.total_time_minutes = 7200 /\ cfg.time_step = 10 /\ cfg.k = 6)
                   => Len(stats_df.data) = 120

\* a table without rows, of a call with fewer samples than one block
C5_Witness ==
    /\ pc = "aggregated"
    /\ cfg.k > Len(humidity_data)
    /\ Len(humidity_data) >= 1
    /\ Len(stats_df.data) = 0

\* C6: row j is computed from the samples j*k .. j*k+k-1 of each series, in their
\* order; the trailing N mod k samples belong to no row.
C6_ContiguousBlocks ==
    Aggregated =>
        LET N == Len(humidity_data)
            k == cfg.k
            n == Len(stats_df.data)
            block(a, j) == SubSeq(a, (j - 1) * k + 1, j * k)
        IN  /\ n * k <= N
            /\ N - n * k = N % k
            /\ Len(reshaped.humidity) = n /\ Len(reshaped.light) = n /\ Len(reshaped.temp) = n
            /\ reshaped.time_blocks = SubSeq(time, 1, n * k)
            /\ \A j \in 1 .. n :
                  /\ reshaped.humidity[j] = block(humidity_data, j)
                  /\ reshaped.light[j] = block(light_data, j)
                  /\ reshaped.temp[j] = block(temp_data, j)
                  /\ stats_df.data[j] = data_combined(block(humidity_data, j),
                                                      block(light_data, j),
                                                      block(temp_data, j))

\* a table of several rows with samples left over
C6_Witness ==
    /\ pc = "aggregated"
    /\ Len(stats_df.data) >= 2
    /\ Len(humidity_data) % cfg.k # 0
    /\ reshaped.humidity[2] # reshaped.humidity[1]

----------------------------------------------------------------------------
(* Properties of the stream *)

\* message m is the data message of the r-th row of the table
IsRowMessage(m, r) ==
    /\ DOMAIN m = {"index", "data"}
    /\ m.index = r - 1
    /\ DOMAIN m.data = {stats_df.columns[n][1] \o "_" \o stats_df.columns[n][2] :
                           n \in 1 .. Len(stats_df.columns)}
    /\ \A n \in 1 .. Len(stats_df.columns) :
          m.data[stats_df.columns[n][1] \o "_" \o stats_df.columns[n][2]] = stats_df.data[r][n]

\* C7: for a table of n rows the stream is the n data messages of rows 0 .. n-1 in
\* that order, then one completion message, and nothing after it.
C7_StreamOrder ==
    LET n == Len(stats_df.data)
    IN  /\ pc = "streaming" =>
              /\ row <= n
              /\ Len(sent) = row
              /\ \A r \in 1 .. row : IsRowMessage(sent[r], r)
        /\ pc \in {"complete", "closed"} =>
              /\ Len(sent) = n + 1
              /\ \A r \in 1 .. n : IsRowMessage(sent[r], r)
              /\ sent[n + 1] = StreamComplete

\* the stream of a table of three rows has ended after four messages
C7_Witness ==
    /\ pc = "closed"
    /\ Len(stats_df.data) = 3
    /\ Len(sent) = 4
    /\ sent[4] = StreamComplete

----------------------------------------------------------------------------
(* Properties of repeated calls *)

\* a call after the one kept in ref has left full_data
LaterCallReturned ==
    /\ ref # NoRef
    /\ calls > ref.calls
    /\ pc \in {"returned", "aggregated", "saved", "raised"}

SameSeries ==
    /\ time = ref.time
    /\ humidity_data = ref.humidity_data
    /\ light_data = ref.light_data
    /\ temp_data = ref.temp_data

C10_SameStreamSameSeries ==
    (LaterCallReturned /\ [cfg EXCEPT !.k = ref.cfg.k] = ref.cfg /\ rng0 = ref.rng0)
        => SameSeries

\* the third call repeats the first one, from the same state of the random stream
C10_Witness ==
    /\ LaterCallReturned
    /\ calls = 3
    /\ [cfg EXCEPT !.k = ref.cfg.k] = ref.cfg
    /\ rng0 = ref.rng0
    /\ Len(humidity_data) >= 4
    /\ \E n \in 1 .. Len(humidity_data) : humidity_data[n] <= watering_threshold

----------------------------------------------------------------------------
(* Properties of the entry of full_data *)

\* time_step <= 0, theta_pwp <= 0, or fewer than one whole step in the total time
InvalidConfiguration(c) ==
    \/ c.time_step <= 0
    \/ c.theta_pwp <= 0
    \/ c.total_time_minutes \div c.time_step < 1

\* C11: a call whose configuration has time_step <= 0, theta_pwp <= 0 or
\* floor(total_time_minutes / time_step) < 1 is left by an exception raised in
\* full_data before any sample is drawn and before any moisture update: the
\* generator is where it was at the entry, no iteration has run, and no series
\* and no table exist.
C11_InvalidConfigurationRejected ==
    (pc # "idle" /\ InvalidConfiguration(cfg)) =>
        /\ pc = "raised"
        /\ exc.at = "full_data"
        /\ exc.seen # "none"
        /\ rng = rng0
        /\ last = NoStep
        /\ time = <<>> /\ humidity_data = <<>> /\ light_data = <<>> /\ temp_data = <<>>
        /\ stats_df = NoTable

----------------------------------------------------------------------------
(* Properties of the loop of full_data *)

\* full_data has returned to synthetic_dataset
Returned == pc \in {"returned", "aggregated", "saved", "streaming", "complete", "closed"}

\* C12: a call that reaches the loop of full_data leaves it (termination), the
\* loop is left only when exactly total_steps - 1 transitions have run, whatever
\* the moistures, the watering resets and the samples were, and humidity_data[0]
\* is theta_init from the entry on.
C12_TerminatesAfterAllTransitions ==
    /\ (pc = "loop") ~> (pc = "returned")
    /\ [][(pc = "loop" /\ pc' # "loop") => (i = total_steps(cfg) - 1 /\ i' = i)]_vars
    /\ [](Returned => (i = total_steps(cfg) - 1 /\ last.step = i - 1))
    /\ []((pc = "loop" \/ Returned) => humidity_data[1] = cfg.theta_init)

\* a call of several transitions has returned after a watering reset in the loop
C12_Witness ==
    /\ pc = "returned"
    /\ i = total_steps(cfg) - 1
    /\ i >= 3
    /\ \E n \in 1 .. i : humidity_data[n] <= watering_threshold

\* C13: no light value is negative: every entry of light_data, the sample of
\* the latest iteration, and what get_light returns at the time of the next
\* iteration for every state of the generator (every noise draw, with or
\* without a cloud).
C13_LightNonNegative ==
    /\ \A n \in 1 .. Len(light_data) : light_data[n] >= 0
    /\ last.L >= 0
    /\ (pc = "loop" /\ i < total_steps(cfg) - 1) =>
           \A s \in 0 .. RngModulus - 1 : get_light(time[i + 1], cfg.L_peak, s).value >= 0

\* an iteration whose light plus noise was below zero recorded the light 0
C13_Witness ==
    /\ last.step >= 0
    /\ last.L = 0
    /\ light_data[last.step + 1] = 0
    /\ get_light_unclipped(time[last.step + 1], cfg.L_peak, last.rng).value < 0

\* an iteration under a cloud in daylight recorded a positive light
C13_CloudReached ==
    /\ last.step >= 0
    /\ last.L > 0
    /\ Rand(RngNext(RngNext(last.rng))) < 50

----------------------------------------------------------------------------
(* Properties of the columns and of the keys *)

\* the samples of window j of a series
Window(a, j) == SubSeq(a, (j - 1) * cfg.k + 1, j * cfg.k)

\* the series of the n-th signal of the table
SeriesOf(n) == IF n = 1 THEN humidity_data ELSE IF n = 2 THEN light_data ELSE temp_data

\* C14: every row of the table has 15 columns, labelled signal by signal
\* (humidity, then light, then temperature) and within a signal in the order
\* mean, min, max, 25%, 75%; the value under the label (signal, statistic) is
\* that statistic of that signal's window.
C14_ColumnsLineUp ==
    Aggregated =>
        /\ stats_df.columns =
              << <<"humidity", "mean">>, <<"humidity", "min">>, <<"humidity", "max">>,
                 <<"humidity", "25%">>, <<"humidity", "75%">>,
                 <<"light_data", "mean">>, <<"light_data", "min">>, <<"light_data", "max">>,
                 <<"light_data", "25%">>, <<"light_data", "75%">>,
                 <<"temp_data", "mean">>, <<"temp_data", "min">>, <<"temp_data", "max">>,
                 <<"temp_data", "25%">>, <<"temp_data", "75%">> >>
        /\ \A j \in Rows :
              /\ Len(stats_df.data[j]) = 15
              /\ \A n \in 1 .. 3 :
                    LET b == Window(SeriesOf(n), j)
                        v == stats_df.columns[5 * (n - 1) + 1][1]
                    IN  /\ Cell(j, v, "mean") = np_mean(b)
                        /\ Cell(j, v, "min") = np_min(b)
                        /\ Cell(j, v, "max") = np_max(b)
                        /\ Cell(j, v, "25%") = np_percentile(b, 25)
                        /\ Cell(j, v, "75%") = np_percentile(b, 75)

\* a table with a row whose fifteen values tell the signals and the statistics apart
C14_Witness ==
    /\ pc = "aggregated"
    /\ Len(stats_df.data) >= 1
    /\ \E j \in Rows :
          /\ \A v \in Signals :
                /\ Cell(j, v, "min") < Cell(j, v, "25%")
                /\ Cell(j, v, "25%") < Cell(j, v, "75%")
                /\ Cell(j, v, "75%") < Cell(j, v, "max")
                /\ Cell(j, v, "mean") # Cell(j, v, "25%")
          /\ Cell(j, "humidity", "mean") # Cell(j, "light_data", "mean")
          /\ Cell(j, "light_data", "mean") # Cell(j, "temp_data", "mean")

\* the messages of the stream that carry a row
DataMessages == {r \in 1 .. Len(sent) : "data" \in DOMAIN sent[r]}

Statistics == {"mean", "min", "max", "25%", "75%"}

\* the keys <signal>_<statistic>
Keys(signals) == {sg \o "_" \o st : sg \in signals, st \in Statistics}

\* C15 as claimed: the data record of every data message has exactly the 15
\* keys <signal>_<statistic> with signal in {humidity, light, temperature} and
\* statistic in {mean, min, max, 25%, 75%}.
C15_KeysOfSignalNames ==
    \A r \in DataMessages :
        /\ DOMAIN sent[r].data = Keys({"humidity", "light", "temperature"})
        /\ Cardinality(DOMAIN sent[r].data) = 15

\* C15, amended: the data record of every data message has exactly the 15 keys
\* <label>_<statistic> with label in {humidity, light_data, temp_data} and
\* statistic in {mean, min, max, 25%, 75%}.
C15_KeysOfColumnLabels ==
    \A r \in DataMessages :
        /\ DOMAIN sent[r].data = Keys({"humidity", "light_data", "temp_data"})
        /\ Cardinality(DOMAIN sent[r].data) = 15

\* a data message was emitted, with the keys of the light minimum and of the
\* upper temperature quartile
C15_Witness ==
    /\ pc = "streaming"
    /\ DataMessages # {}
    /\ \E r \in DataMessages : {"light_data_min", "temp_data_75%"} \subseteq DOMAIN sent[r].data

----------------------------------------------------------------------------
(* Properties of the order of events of a request *)

Streaming == pc \in {"streaming", "complete", "closed"}

\* C16: in a request to /stream_stats the whole series is simulated before any
\* window is aggregated, every window is aggregated (and the table written)
\* before any message is emitted, the message of window j is emitted only when
\* all k raw samples of the window exist, and the windows are emitted in
\* non-decreasing order of time.
C16_SimulateAggregateEmit ==
    /\ (stats_df # NoTable \/ reshaped # NoBlocks) =>
           (pc \notin {"idle", "loop"} /\ i = total_steps(cfg) - 1)
    /\ sent # <<>> => Streaming
    /\ Streaming =>
           /\ i = total_steps(cfg) - 1
           /\ Len(stats_df.data) = Len(humidity_data) \div cfg.k
           /\ csv = stats_df
    /\ \A r \in DataMessages :
           LET j == sent[r].index
           IN  /\ j \in 0 .. Len(stats_df.data) - 1
               /\ (j + 1) * cfg.k <= i + 1
               /\ \A q \in DataMessages :
                     q < r => /\ sent[q].index < j
                              /\ time[sent[q].index * cfg.k + 1] <= time[j * cfg.k + 1]

\* the second of several windows has just been emitted
C16_Witness ==
    /\ pc = "streaming"
    /\ Len(stats_df.data) >= 3
    /\ Len(sent) = 2
    /\ sent[2].index = 1

\* C17: when open() or to_csv() raises inside synthetic_dataset the caller sees
\* that very exception, the call is over for good (no handler resumes or
\* retries it), no table is returned, and stream_stats emits no message; a
\* stream runs only for a call that wrote its table.
C17_SinkFailurePropagates ==
    /\ []((pc = "raised" /\ exc.at \in {"open", "to_csv"}) =>
              /\ exc.raised # "none"
              /\ exc.seen = exc.raised
              /\ sent = <<>>
              /\ row = 0)
    /\ [](Streaming => (exc = NoExc /\ csv = stats_df))
    /\ [][(pc = "raised") => (pc' = "raised" /\ sent' = sent /\ csv' = csv)]_vars

\* to_csv raised after a table of several rows was built
C17_Witness ==
    /\ pc = "raised"
    /\ exc.at = "to_csv"
    /\ exc.seen = "OSError"
    /\ Len(stats_df.data) >= 2
    /\ csv = NoTable

----------------------------------------------------------------------------
(* Properties of the recorded series *)

\* the value is one that get_light can return at time t
IsLightSample(x, t) ==
    \E s \in 0 .. RngModulus - 1 : get_light(t, cfg.L_peak, s).value = x

\* the value is one that get_temperature can return at time t
IsTemperatureSample(x, t) ==
    \E s \in 0 .. RngModulus - 1 :
        get_temperature(t, cfg.T_avg, cfg.T_amplitude, cfg.T_lag, s).value = x

\* C18 as claimed: when full_data returns, the three series have N entries and
\* for every index i in 0 .. N-1, N-1 included, light[i] and temperature[i] hold
\* a sample of get_light(time[i]) and of get_temperature(time[i]).
C18_EveryIndexSampled ==
    pc = "returned" =>
        /\ Len(humidity_data) = total_steps(cfg)
        /\ Len(light_data) = total_steps(cfg)
        /\ Len(temp_data) = total_steps(cfg)
        /\ \A n \in 1 .. total_steps(cfg) :
              /\ IsLightSample(light_data[n], time[n])
              /\ IsTemperatureSample(temp_data[n], time[n])

\* C19 as claimed: time[0] = 0 and time[i+1] - time[i] = time_step for every i,
\* so that the iteration of index i samples the environment at i * time_step
\* and the time elapsed in one decay is the spacing of the recorded time points.
C19_FixedTimeStep ==
    pc \notin {"idle", "raised"} =>
        /\ time[1] = 0
        /\ \A n \in 1 .. Len(time) - 1 : time[n + 1] - time[n] = 100 * cfg.time_step
        /\ \A n \in 1 .. Len(time) : time[n] = 100 * (n - 1) * cfg.time_step

----------------------------------------------------------------------------
(* Properties of calculate_lambda *)

Abs(x) == IF x < 0 THEN - x ELSE x

\* K_soil * lambda_base + K_crop * (c_temp * T + c_light * L), in 1e-8 per minute
UncorrectedRate(c, T, L) ==
    10 * c.K_soil * c.lambda_base + c.K_crop * (c.c_temp * T + c.c_light * L)

\* clip((theta / theta_pwp)^2, 0.05, 1.0), in percent
StressFactor(theta, theta_pwp) ==
    Clip(RoundDiv(100 * theta * theta, theta_pwp * theta_pwp), 5, 100)

\* C20: calculate_lambda returns the uncorrected rate when theta > theta_pwp
\* and the uncorrected rate times clip((theta/theta_pwp)^2, 0.05, 1.0) when
\* theta <= theta_pwp; the factor is 1.0 at theta = theta_pwp and 0.05 at
\* theta = 0; the result is never larger in magnitude than the uncorrected rate.
C20_StressCorrection ==
    probe # NoProbe =>
        LET c     == probe.cfg
            theta == probe.theta
            base  == UncorrectedRate(c, probe.T, probe.L)
        IN  /\ theta > c.theta_pwp => probe.result = base
            /\ theta <= c.theta_pwp =>
                   probe.result = RoundDiv(base * StressFactor(theta, c.theta_pwp), 100)
            /\ theta = c.theta_pwp =>
                   (StressFactor(theta, c.theta_pwp) = 100 /\ probe.result = base)
            /\ theta = 0 =>
                   (StressFactor(theta, c.theta_pwp) = 5 /\ probe.result = RoundDiv(base * 5, 100))
            /\ Abs(probe.result) <= Abs(base)

\* a call with a moisture strictly between 0 and the wilting point, whose
\* factor is strictly between 0.05 and 1.0
C20_Witness ==
    /\ probe # NoProbe
    /\ 0 < probe.theta /\ probe.theta < probe.cfg.theta_pwp
    /\ StressFactor(probe.theta, probe.cfg.theta_pwp) \in 6 .. 99
    /\ 0 < probe.result
    /\ probe.result < UncorrectedRate(probe.cfg, probe.T, probe.L)

\* a call at moisture 0 whose uncorrected rate is negative
C20_NegativeRateAtFloor ==
    /\ probe # NoProbe
    /\ probe.theta = 0
    /\ probe.result < 0

----------------------------------------------------------------------------
(* Properties of the random draws *)

\* L_peak * cos(...) truncated at 0: the light before noise and clouds
BaseLight(t, L_peak) == Max(0, RoundDiv(L_peak * 10 * CosDay(t - t_peak * 100), ONE))

\* C21: in every iteration the generator is advanced by the draws of get_light
\* first and by the one draw of get_temperature last; get_light draws the
\* Gaussian noise, then the cloud probability (at night too), then the uniform
\* cloud factor, which is drawn and applied exactly when the cloud probability
\* is below 0.05 and the base light is positive.
C21_DrawOrder ==
    last.step >= 0 =>
        LET d     == last.draws
            n     == Len(d)
            t     == time[last.step + 1]
            L0    == BaseLight(t, cfg.L_peak)
            cloud == Rand(d[2].state) < 50 /\ L0 > 0
            L1    == IF cloud THEN RoundDiv(L0 * (1000 - Uniform(d[3].state, 100, 400)), 1000)
                     ELSE L0
        IN  /\ n = (IF cloud THEN 4 ELSE 3)
            /\ d[1] = Draw("get_light", "normal", RngNext(last.rng))
            /\ d[2] = Draw("get_light", "rand", RngNext(d[1].state))
            /\ cloud => d[3] = Draw("get_light", "uniform", RngNext(d[2].state))
            /\ d[n] = Draw("get_temperature", "normal", RngNext(d[n - 1].state))
            /\ pc = "loop" => rng = d[n].state
            /\ last.L = Max(0, L1 + Normal(d[1].state, 50))
            /\ last.T = get_temperature(t, cfg.T_avg, cfg.T_amplitude, cfg.T_lag,
                                        d[n - 1].state).value

\* an iteration in daylight whose cloud probability was below 0.05: four draws
C21_Witness ==
    /\ last.step >= 0
    /\ Len(last.draws) = 4
    /\ last.draws[3].kind = "uniform"
    /\ last.L < BaseLight(time[last.step + 1], cfg.L_peak) + Normal(last.draws[1].state, 50)

\* an iteration at night whose cloud probability was below 0.05: three draws
C21_NightCloudDraw ==
    /\ last.step >= 0
    /\ BaseLight(time[last.step + 1], cfg.L_peak) = 0
    /\ Rand(last.draws[2].state) < 50
    /\ Len(last.draws) = 3

----------------------------------------------------------------------------
(* Properties of fetch_wab_data *)

\* C22: a call returns a sample only when the lastHistoryStep it read is
\* strictly greater than the stored last_wab_step, and then stores that step;
\* last_wab_step never decreases, no call returns more than one sample, and
\* no history step (and no record) is returned twice.
C22_OnlyNewSteps ==
    /\ [](Len(wab_last.result) <= 1)
    /\ [](wab_last.outcome = "sample" =>
              /\ Len(wab_last.result) = 1
              /\ wab_last.result[1].step > wab_last.before.last_wab_step
              /\ session_state.last_wab_step = wab_last.result[1].step
              /\ delivered[Len(delivered)] = wab_last.result[1])
    /\ [](wab_last.outcome # "sample" =>
              (wab_last.result = <<>>
               /\ (fetch.pc = "idle" =>
                      session_state.last_wab_step = wab_last.before.last_wab_step)))
    /\ [](\A a, b \in 1 .. Len(delivered) :
              a < b => /\ delivered[a].step < delivered[b].step
                       /\ delivered[a].timestamp # delivered[b].timestamp)
    /\ [][session_state'.last_wab_step >= session_state.last_wab_step]_vars
    /\ [][(delivered' # delivered) =>
              (wab_last'.outcome = "sample" /\ Len(delivered') = Len(delivered) + 1)]_vars

\* two samples were returned, the second one read while the run was growing
C22_Witness ==
    /\ Len(delivered) = 2
    /\ wab_last.outcome = "sample"
    /\ delivered[2].record > delivered[2].step
    /\ delivered[1].step >= 0

\* C23: a call made less than the polling interval after the stored
\* last_wab_fetch_time returns [] without contacting the W&B API and leaves
\* last_wab_fetch_time, last_wab_step and last_wab_timestamp as they were; a
\* call that contacts the API comes at least one polling interval after the
\* previous contact, whose time is the stored last_wab_fetch_time.
C23_Throttle ==
    /\ wab_last.outcome = "throttled" =>
           /\ wab_last.at - wab_last.before.last_wab_fetch_time
                  < wab_last.before.wab_poll_interval
           /\ ~ wab_last.contacted
           /\ wab_last.result = <<>>
           /\ last_contact = wab_last.previous_contact
           /\ session_state.last_wab_fetch_time = wab_last.before.last_wab_fetch_time
           /\ session_state.last_wab_step = wab_last.before.last_wab_step
           /\ session_state.last_wab_timestamp = wab_last.before.last_wab_timestamp
    /\ wab_last.contacted =>
           /\ wab_last.at - wab_last.previous_contact >= wab_last.before.wab_poll_interval
           /\ last_contact = wab_last.at
    /\ session_state.last_wab_fetch_time = last_contact

\* a call was throttled after a sample had been returned and time had passed
C23_Witness ==
    /\ wab_last.outcome = "throttled"
    /\ wab_last.before.last_wab_step >= 0
    /\ wab_last.at > wab_last.before.last_wab_fetch_time
    /\ Undelivered # <<>>

\* the steps and the timestamps a failed call leaves where they were
FailureKeepsStep ==
    (wab_last.outcome \in Failures /\ fetch.pc = "idle") =>
        /\ wab_last.result = <<>>
        /\ session_state.last_wab_step = wab_last.before.last_wab_step
        /\ session_state.last_wab_timestamp = wab_last.before.last_wab_timestamp

\* C24 as claimed: a failed call returns [] and leaves last_wab_step and
\* last_wab_timestamp unchanged, and the step it could not deliver is the step
\* that the next call that returns a sample delivers.
C24_UndeliveredStepDelivered ==
    /\ FailureKeepsStep
    /\ (wab_last.outcome = "sample" /\ wab_last.recovered # <<>>) =>
           /\ wab_last.result[1].run = wab_last.recovered[1].run
           /\ wab_last.result[1].step = wab_last.recovered[1].step

\* C24, amended: a failed call returns [] and leaves last_wab_step and
\* last_wab_timestamp unchanged; the two fields change only in a call that
\* returns a sample; the next sample returned after a failure is the latest
\* step of the latest run at the time of that call, which is the undelivered
\* step or a later one of the same run, or a step of a newer run.
C24_FailureKeepsStepForLaterCall ==
    /\ []FailureKeepsStep
    /\ [][(session_state'.last_wab_step # session_state.last_wab_step
           \/ session_state'.last_wab_timestamp # session_state.last_wab_timestamp) =>
              (wab_last'.outcome = "sample" /\ delivered' # delivered)]_vars
    /\ []((wab_last.outcome = "sample" /\ wab_last.recovered # <<>>) =>
              \/ /\ wab_last.result[1].run = wab_last.recovered[1].run
                 /\ wab_last.result[1].step >= wab_last.recovered[1].step
              \/ wab_last.result[1].run > wab_last.recovered[1].run)

\* a sample was returned after a call that failed inside scan_history
C24_Witness ==
    /\ wab_last.outcome = "sample"
    /\ wab_last.recovered # <<>>
    /\ wab_last.result[1].run = wab_last.recovered[1].run
    /\ wab_last.result[1].step = wab_last.recovered[1].step
    /\ wab_last.before.last_wab_step >= 0

\* a failed call left a step undelivered for each kind of failure
C24_EachFailureReached ==
    /\ wab_last.outcome = "raised"
    /\ fetch.pc = "idle"
    /\ wab_last.undelivered # <<>>
    /\ wab_last.before.last_wab_step >= 0

----------------------------------------------------------------------------
(* Properties of SerialManager *)

RECURSIVE Flatten(_)
Flatten(chunks) ==
    IF chunks = <<>> THEN <<>> ELSE Head(chunks) \o Flatten(Tail(chunks))

\* the chunks the reader has read and not yet handed to a caller
Pending ==
    read_queue \o (IF read_thread.pc = "put" THEN <<read_thread.data>> ELSE <<>>)

\* C25: under every interleaving of the reader thread with the caller, receive
\* returns the chunks in the order the reader read them from the port, each
\* once (what was received, followed by what is queued, is what was read, and
\* no byte is in two chunks); stop() closes the port only after the reader
\* thread has terminated, and the reader never touches a closed port.
C25_OrderedOnceAndClosedAfterJoin ==
    /\ [](received \o Pending = read_log)
    /\ [](Flatten(read_log) \o serial.in_waiting = [n \in 1 .. sent_bytes |-> n])
    /\ [][(received' # received) =>
              (/\ Len(received) < Len(read_log)
               /\ received' = Append(received, read_log[Len(received) + 1]))]_vars
    /\ [](~ serial.is_open => read_thread.pc = "terminated")
    /\ [](read_thread.error # "port closed")
    /\ [][(serial.is_open /\ ~ serial'.is_open) =>
              (read_thread.pc = "terminated" /\ ~ running)]_vars

\* two chunks were received in order, the first one of two bytes, and the
\* port was closed after the reader had read all of them
C25_Witness ==
    /\ ~ serial.is_open
    /\ Len(received) = 2
    /\ Len(received[1]) = 2
    /\ received = read_log
    /\ read_thread.error = "none"
----------------------------------------------------------------------------
(* Properties of the moisture series *)

\* the moisture the iteration that wrote humidity_data[n + 1] started from
StartOf(n) == watered(cfg, humidity_data[n])

\* the decay rate of the iteration that wrote humidity_data[n + 1]
RateOf(n) == LambdaAt(n, StartOf(n))

\* a simulation with a wilting point of at least 0 and below the initial moisture
WiltingPointBelowInit ==
    /\ Simulating
    /\ 0 <= cfg.theta_pwp
    /\ cfg.theta_pwp < cfg.theta_init

\* the clamp max(0.0, .) has left the value of the latest iteration as the
\* update computed it
ClampIdle ==
    last.step >= 0 =>
        LET updated == exponential_update(cfg, last.used, last.lambda)
        IN  /\ updated >= 0
            /\ humidity_data[last.step + 2] = updated
            /\ current_humidity = updated

\* C26 as claimed: for 0 <= theta_pwp < theta_init every moisture value carried
\* or recorded stays strictly above theta_pwp, and the clamp changes no value.
C26_StrictlyAboveWiltingPoint ==
    WiltingPointBelowInit =>
        /\ current_humidity > cfg.theta_pwp
        /\ \A n \in 1 .. i + 1 : humidity_data[n] > cfg.theta_pwp
        /\ ClampIdle

\* C26, amended: for 0 <= theta_pwp < theta_init every moisture value carried
\* or recorded is at least theta_pwp (in floating point the distance to the
\* wilting point is rounded away after enough decay, and the value is then
\* theta_pwp itself), and the clamp changes no value.
C26_NotBelowWiltingPoint ==
    WiltingPointBelowInit =>
        /\ current_humidity >= cfg.theta_pwp
        /\ current_humidity = humidity_data[i + 1]
        /\ \A n \in 1 .. i + 1 : humidity_data[n] >= cfg.theta_pwp
        /\ last.step >= 0 => last.used >= cfg.theta_pwp
        /\ ClampIdle

\* the parched soil has reached its wilting point and stays there in the
\* last iteration of the run
C26_Witness ==
    /\ cfg = ParchedCfg
    /\ pc = "loop"
    /\ i = total_steps(cfg) - 1
    /\ humidity_data[i] = cfg.theta_pwp
    /\ humidity_data[i + 1] = cfg.theta_pwp
    /\ humidity_data[1] = cfg.theta_init

\* C27: in a simulation with theta_pwp < 25.0 and theta_pwp < theta_init the
\* moisture passed to calculate_lambda is always above theta_pwp, so the rate
\* is never the water-stress one: a moisture <= 25.0 was replaced by theta_init
\* before the call.
C27_NoStressBelowThreshold ==
    (/\ Simulating
     /\ cfg.theta_pwp < watering_threshold
     /\ cfg.theta_pwp < cfg.theta_init)
        => /\ last.step >= 0 =>
                 /\ last.used > cfg.theta_pwp
                 /\ last.pre <= watering_threshold => last.used = cfg.theta_init
                 /\ last.lambda = UncorrectedRate(cfg, last.T, last.L)
           /\ \A n \in 1 .. i : StartOf(n) > cfg.theta_pwp

\* an iteration of the fast-draining soil that started at or below the
\* threshold and computed its rate from theta_init
C27_Witness ==
    /\ cfg = FastCfg
    /\ last.step >= 1
    /\ last.pre <= watering_threshold
    /\ last.pre > cfg.theta_pwp
    /\ last.used = cfg.theta_init
    /\ last.lambda > 0

\* every decay rate of the iterations made so far was >= 0
RatesNonNegative == \A m \in 1 .. i : RateOf(m) >= 0

\* C28: while all decay rates are >= 0 and theta_pwp < theta_init, a recorded
\* value is above the one before it only when that one was <= 25.0 (the soil
\* was watered), so the series is non-increasing between two resets, and no
\* recorded value exceeds theta_init.
C28_RisesOnlyThroughWatering ==
    (Simulating /\ cfg.theta_pwp < cfg.theta_init /\ RatesNonNegative) =>
        /\ humidity_data[1] <= cfg.theta_init
        /\ \A n \in 1 .. i :
               /\ humidity_data[n + 1] > humidity_data[n]
                      => humidity_data[n] <= watering_threshold
               /\ humidity_data[n] > watering_threshold
                      => humidity_data[n + 1] <= humidity_data[n]
               /\ humidity_data[n + 1] <= cfg.theta_init

\* the default run has finished with rates >= 0 throughout; its series fell,
\* was watered and rose
C28_Witness ==
    /\ cfg = DefaultCfg
    /\ pc = "returned"
    /\ RatesNonNegative
    /\ \E n \in 1 .. i : humidity_data[n + 1] > humidity_data[n]
    /\ \E n \in 1 .. i : humidity_data[n + 1] < humidity_data[n]

====
